---- MODULE Spec2Model ----
\* A model of the terminal text viewer of src/src/main.rs: the TermInfo /
\* Cursor / Text structures, the cursor-movement handlers, the full-screen
\* redraw and the event loop of main.
EXTENDS Integers, Sequences, FiniteSets, TLC

\* ---------------------------------------------------------------- bounds
MaxRows == 3      \* most rows a modelled file has
MaxRowLen == 2    \* most characters a modelled row has
MaxW == 2         \* widest terminal the size query reports
MaxH == 2         \* tallest terminal the size query reports

\* ---------------------------------------------------------------- state
VARIABLES
    pc,         \* position of main: "new", "text", "loop", "draw", "poll", "read", "exited"
    raw,        \* whether the terminal is in raw mode
    exit,       \* how main ended: "none", "ok", "err", "panic"
    term_info,  \* TermInfo: [alive, width, height]
    text,       \* Text.rows: a sequence of rows, each the sequence of its chars
    cursor,     \* Cursor: [col, row, ren_col, ren_row]
    printed     \* the lines the step just taken printed (draw_text's style::Print
                \* of each line); empty after a step that prints no line

vars == <<pc, raw, exit, term_info, text, cursor, printed>>

\* ---------------------------------------------------------------- values
Alphabet == <<"a", "b", "c", "d", "e", "f", "g", "h">>

\* A row of n characters; the character tells its index, so a misplaced slice shows.
RowOf(n) == SubSeq(Alphabet, 1, n)

RowsOfLen(n) == [1..n -> {RowOf(k) : k \in 0..MaxRowLen}]

\* The contents a file can have: up to MaxRows rows of up to MaxRowLen chars.
Buffers == UNION {RowsOfLen(n) : n \in 0..MaxRows}

\* What buf_reader.lines() yields for one line: Ok(line), the line ending
\* already stripped, or Err for bytes that are no UTF-8 ("invalid_data") or for
\* a failed read ("io").
LineResults ==
    {[err |-> "none", line |-> RowOf(k)] : k \in 0..MaxRowLen}
        \cup {[err |-> e, line |-> <<>>] : e \in {"invalid_data", "io"}}

\* What lines() yields for a whole file that could be opened.
FileReads == UNION {[1..n -> LineResults] : n \in 0..MaxRows}

\* KeyCode::Char(c) for the five bound characters; "x" is any other key code.
KeyCodes == {"q", "h", "j", "k", "l", "x"}

\* KeyModifiers::NONE, and "SHIFT" for any non-empty set of modifiers.
KeyModifiers == {"NONE", "SHIFT"}

KeyEvents == [code : KeyCodes, modifiers : KeyModifiers]

\* What terminal::size() can report (claims are about width, height >= 1).
TermSizes == (1..MaxW) \X (1..MaxH)

Min(a, b) == IF a < b THEN a ELSE b

Max(a, b) == IF a > b THEN a ELSE b

\* `n as i16`: the low 16 bits of n read as a two's complement number.
as_i16(n) == LET m == n % 65536 IN IF m >= 32768 THEN m - 65536 ELSE m

\* ---------------------------------------------------------------- Cursor
\* Cursor::new
new_cursor == [col |-> 0, row |-> 0, ren_col |-> 0, ren_row |-> 0]

row_index(self) == self.row + self.ren_row

col_index(self) == self.col + self.ren_col

\* Mutant of is_past_last_row: the comparison against len instead of len - 1.
is_past_last_row_off_by_one(self, tx) == row_index(self) >= Len(tx)

is_past_last_row(self, tx) == row_index(self) >= Len(tx) - 1

\* text.rows[self.row_index()] panics when the index is out of range.
row_in_range(self, tx) == row_index(self) < Len(tx)

is_past_row_end(self, tx) == col_index(self) >= Len(tx[row_index(self) + 1])

move_cursor_end_of_row(self, ti, tx) ==
    LET row_len == Len(tx[row_index(self) + 1])
    IN [self EXCEPT !.col = row_len,
                    !.ren_col = Max(0, as_i16(as_i16(row_len) - as_i16(ti.width)))]

\* The two lines that end the Up and Down arms: clamp when past the row's end.
\* The result is the cursor and whether the row indexing panicked.
clamp_if_past_row_end(self, ti, tx) ==
    IF ~row_in_range(self, tx) THEN [cursor |-> self, panic |-> TRUE]
    ELSE IF is_past_row_end(self, tx)
         THEN [cursor |-> move_cursor_end_of_row(self, ti, tx), panic |-> FALSE]
         ELSE [cursor |-> self, panic |-> FALSE]

\* Mutant of move_up: the `else if self.ren_row > 0` branch is missing.
move_up_no_scroll(self) ==
    IF self.row > 0 THEN [self EXCEPT !.row = @ - 1] ELSE self

move_up(self) ==
    IF self.row > 0 THEN [self EXCEPT !.row = @ - 1]
    ELSE IF self.ren_row > 0 THEN [self EXCEPT !.ren_row = @ - 1]
    ELSE self

\* Mutant of move_down: the `self.row < term_info.height - 1` test is missing,
\* every Down scrolls.
move_down_always_scrolls(self, ti, tx) ==
    IF ~is_past_last_row(self, tx) THEN [self EXCEPT !.ren_row = @ + 1]
    ELSE self

move_down(self, ti, tx) ==
    IF ~is_past_last_row(self, tx)
    THEN IF self.row < ti.height - 1 THEN [self EXCEPT !.row = @ + 1]
         ELSE [self EXCEPT !.ren_row = @ + 1]
    ELSE self

move_left(self) ==
    IF self.col > 0 THEN [self EXCEPT !.col = @ - 1]
    ELSE IF self.ren_col > 0 THEN [self EXCEPT !.ren_col = @ - 1]
    ELSE self

move_right(self, ti, tx) ==
    IF ~row_in_range(self, tx) THEN [cursor |-> self, panic |-> TRUE]
    ELSE IF ~is_past_row_end(self, tx)
         THEN IF self.col < ti.width - 1
              THEN [cursor |-> [self EXCEPT !.col = @ + 1], panic |-> FALSE]
              ELSE [cursor |-> [self EXCEPT !.ren_col = @ + 1], panic |-> FALSE]
         ELSE [cursor |-> self, panic |-> FALSE]

\* Mutant of handle_cursor_move: the `text.rows.is_empty()` guard is missing.
handle_cursor_move_unguarded(self, key_code, ti, tx) ==
    CASE key_code = "k" -> clamp_if_past_row_end(move_up(self), ti, tx)
      [] key_code = "j" -> clamp_if_past_row_end(move_down(self, ti, tx), ti, tx)
      [] key_code = "h" -> [cursor |-> move_left(self), panic |-> FALSE]
      [] key_code = "l" -> move_right(self, ti, tx)
      [] OTHER -> [cursor |-> self, panic |-> FALSE]

\* Mutant of handle_cursor_move: the Left arm ends with the clamp, as the Up
\* and Down arms do.
handle_cursor_move_left_clamps(self, key_code, ti, tx) ==
    IF Len(tx) = 0 THEN [cursor |-> self, panic |-> FALSE]
    ELSE CASE key_code = "k" -> clamp_if_past_row_end(move_up(self), ti, tx)
           [] key_code = "j" -> clamp_if_past_row_end(move_down(self, ti, tx), ti, tx)
           [] key_code = "h" -> clamp_if_past_row_end(move_left(self), ti, tx)
           [] key_code = "l" -> move_right(self, ti, tx)
           [] OTHER -> [cursor |-> self, panic |-> FALSE]

\* The cursor after handle_cursor_move(key_code), and whether it panicked.
handle_cursor_move(self, key_code, ti, tx) ==
    IF Len(tx) = 0 THEN [cursor |-> self, panic |-> FALSE]
    ELSE CASE key_code = "k" -> clamp_if_past_row_end(move_up(self), ti, tx)
           [] key_code = "j" -> clamp_if_past_row_end(move_down(self, ti, tx), ti, tx)
           [] key_code = "h" -> [cursor |-> move_left(self), panic |-> FALSE]
           [] key_code = "l" -> move_right(self, ti, tx)
           [] OTHER -> [cursor |-> self, panic |-> FALSE]

\* Mutant of handle_key_event: the quit arm does not clear term_info.alive.
handle_key_event_stays_alive(self, ev, ti, tx) ==
    IF ev.modifiers = "NONE" /\ ev.code # "q"
    THEN LET r == handle_cursor_move(self, ev.code, ti, tx)
         IN [cursor |-> r.cursor, alive |-> ti.alive, panic |-> r.panic,
             io |-> Len(tx) > 0]
    ELSE [cursor |-> self, alive |-> ti.alive, panic |-> FALSE, io |-> FALSE]

\* Mutant of handle_key_event: the `modifiers == KeyModifiers::NONE` test is
\* missing.
handle_key_event_any_modifiers(self, ev, ti, tx) ==
    IF ev.code = "q"
    THEN [cursor |-> self, alive |-> FALSE, panic |-> FALSE, io |-> FALSE]
    ELSE LET r == handle_cursor_move(self, ev.code, ti, tx)
         IN [cursor |-> r.cursor, alive |-> ti.alive, panic |-> r.panic,
             io |-> Len(tx) > 0]

\* The cursor, the alive flag, the panic flag and whether the final
\* cursor::MoveTo was reached, after handle_key_event(ev).
handle_key_event(self, ev, ti, tx) ==
    IF ev.modifiers = "NONE"
    THEN IF ev.code = "q"
         THEN [cursor |-> self, alive |-> FALSE, panic |-> FALSE, io |-> FALSE]
         ELSE LET r == handle_cursor_move(self, ev.code, ti, tx)
              IN [cursor |-> r.cursor, alive |-> ti.alive, panic |-> r.panic,
                  io |-> Len(tx) > 0]
    ELSE [cursor |-> self, alive |-> ti.alive, panic |-> FALSE, io |-> FALSE]

\* ---------------------------------------------------------------- Text
\* Mutant of draw_line: the slice ends at width instead of ren_col + width.
draw_line_end_unscrolled(tx, ti, cur, y) ==
    LET ri == y + cur.ren_row
        line == [i \in 1..ti.width |-> " "]
    IN IF ri < Len(tx) /\ cur.ren_col < Len(tx[ri + 1])
       THEN LET chars == tx[ri + 1]
                slice == SubSeq(chars, cur.ren_col + 1, Min(Len(chars), ti.width))
            IN [i \in 1..ti.width |-> IF i <= Len(slice) THEN slice[i] ELSE line[i]]
       ELSE line

\* One printed line of draw_text: width spaces, overwritten by the visible slice.
draw_line(tx, ti, cur, y) ==
    LET ri == y + cur.ren_row
        line == [i \in 1..ti.width |-> " "]
    IN IF ri < Len(tx) /\ cur.ren_col < Len(tx[ri + 1])
       THEN LET chars == tx[ri + 1]
                slice == SubSeq(chars, cur.ren_col + 1,
                                Min(Len(chars), cur.ren_col + ti.width))
            IN [i \in 1..ti.width |-> IF i <= Len(slice) THEN slice[i] ELSE line[i]]
       ELSE line

\* line.unwrap_or_default(): the line, or the empty string for any Err.
unwrap_or_default(r) == IF r.err = "none" THEN r.line ELSE <<>>

\* if line.ends_with('\n') { line.pop(); if line.ends_with('\r') { line.pop(); } }
pop_line_ending(line) ==
    IF Len(line) > 0 /\ line[Len(line)] = "\n"
    THEN LET l1 == SubSeq(line, 1, Len(line) - 1)
         IN IF Len(l1) > 0 /\ l1[Len(l1)] = "\r" THEN SubSeq(l1, 1, Len(l1) - 1)
            ELSE l1
    ELSE line

\* The rows Text::from_file builds from what lines() yields; it returns Ok
\* whatever the items are.
from_file(reads) ==
    [i \in 1..Len(reads) |-> pop_line_ending(unwrap_or_default(reads[i]))]

\* The lines draw_text prints, top to bottom (y runs over 0..height-1).
draw_grid(tx, ti, cur) == [n \in 1..ti.height |-> draw_line(tx, ti, cur, n - 1)]

\* ---------------------------------------------------------------- main
\* impl Drop for TermInfo: leave raw mode and clear the screen.
Drop == /\ raw' = FALSE
        /\ printed' = <<>>

\* A step after which main goes on and that prints no line.
Continue == /\ UNCHANGED <<raw, exit>>
            /\ printed' = <<>>

\* A `?` in main after term_info exists, or a panic: main ends, term_info drops.
Leave(how) ==
    /\ pc' = "exited"
    /\ exit' = how
    /\ Drop

\* TermInfo::new, called first in main. A failure after enable_raw_mode returns
\* the error before any TermInfo exists, so nothing is dropped.
TermInfoNew ==
    /\ pc = "new"
    /\ \E outcome \in {"raw_err", "clear_err", "move_err", "size_err", "ok"},
          size \in TermSizes :
         IF outcome = "ok"
         THEN /\ raw' = TRUE
              /\ term_info' = [alive |-> TRUE, width |-> size[1], height |-> size[2]]
              /\ pc' = "text"
              /\ UNCHANGED exit
         ELSE /\ raw' = (outcome # "raw_err")
              /\ pc' = "exited"
              /\ exit' = "err"
              /\ UNCHANGED term_info
    /\ UNCHANGED <<text, cursor, printed>>

\* main with a path argument whose file opens and reads as `reads`:
\* Text::from_file(args[1])? returns Ok, then Cursor::new().
LoadFile(reads) ==
    /\ text' = from_file(reads)
    /\ cursor' = new_cursor
    /\ pc' = "loop"
    /\ Continue

\* Text::from_file(args[1])? or Text::new()?, then Cursor::new().
InitText ==
    /\ pc = "text"
    /\ \/ \E reads \in FileReads : LoadFile(reads)
       \/ /\ text' = <<>>              \* no argument: Text::new()
          /\ cursor' = new_cursor
          /\ pc' = "loop"
          /\ Continue
       \/ /\ Leave("err")             \* File::open failed
          /\ UNCHANGED <<text, cursor>>
    /\ UNCHANGED term_info

\* while term_info.alive { term_info.update_size()?; ... with the size query
\* reporting one of `sizes`.
UpdateSize(sizes) ==
    /\ pc = "loop"
    /\ term_info.alive
    /\ \/ /\ \E size \in sizes :
               term_info' = [term_info EXCEPT !.width = size[1], !.height = size[2]]
          /\ pc' = "draw"
          /\ Continue
       \/ /\ Leave("err")
          /\ UNCHANGED term_info
    /\ UNCHANGED <<text, cursor>>

\* text.draw_text(&mut term_info, &cursor)?
DrawText ==
    /\ pc = "draw"
    /\ \/ /\ printed' = draw_grid(text, term_info, cursor)
          /\ pc' = "poll"
          /\ UNCHANGED <<raw, exit>>
       \/ Leave("err")
    /\ UNCHANGED <<term_info, text, cursor>>

\* if poll(Duration::from_millis(500))? { ... }: a timeout, an event, or an error.
Poll ==
    /\ pc = "poll"
    /\ \/ /\ pc' \in {"loop", "read"}
          /\ Continue
       \/ Leave("err")
    /\ UNCHANGED <<term_info, text, cursor>>

\* cursor.handle_key_event(ev, &mut term_info, &text)? for the key event ev that
\* read() returned.
HandleKeyEvent(ev) ==
    LET r == handle_key_event(cursor, ev, term_info, text)
    IN /\ cursor' = r.cursor
       /\ term_info' = [term_info EXCEPT !.alive = r.alive]
       /\ IF r.panic THEN Leave("panic")
          ELSE \/ /\ pc' = "loop"
                  /\ Continue
               \/ /\ r.io           \* a cursor::MoveTo failed
                  /\ Leave("err")

\* if let Event::Key(key_event) = read()? { cursor.handle_key_event(...)?; }
ReadEvent ==
    /\ pc = "read"
    /\ \/ \E ev \in KeyEvents : HandleKeyEvent(ev)
       \/ /\ pc' = "loop"        \* an event that is no key event
          /\ Continue
          /\ UNCHANGED <<term_info, cursor>>
       \/ /\ Leave("err")        \* read() failed
          /\ UNCHANGED <<term_info, cursor>>
    /\ UNCHANGED text

\* The loop condition fails: main returns Ok(()) and term_info drops.
Return ==
    /\ pc = "loop"
    /\ ~term_info.alive
    /\ Leave("ok")
    /\ UNCHANGED <<term_info, text, cursor>>

\* main before its first statement. No TermInfo, Text or Cursor exists yet:
\* the three variables hold what their constructors give at the least size.
Init ==
    /\ pc = "new"
    /\ raw = FALSE
    /\ exit = "none"
    /\ term_info = [alive |-> TRUE, width |-> 1, height |-> 1]
    /\ text = <<>>
    /\ cursor = new_cursor
    /\ printed = <<>>

\* The program in a terminal that may be resized between size queries.
Next ==
    \/ TermInfoNew
    \/ InitText
    \/ UpdateSize(TermSizes)
    \/ DrawText
    \/ Poll
    \/ ReadEvent
    \/ Return

Spec == Init /\ [][Next]_vars

\* The program in a terminal that is never resized: every size query reports
\* the size TermInfo::new got.
NextFixed ==
    \/ TermInfoNew
    \/ InitText
    \/ UpdateSize({<<term_info.width, term_info.height>>})
    \/ DrawText
    \/ Poll
    \/ ReadEvent
    \/ Return

SpecFixed == Init /\ [][NextFixed]_vars

\* draw_text alone, from any buffer, any scroll offsets and any viewport
\* (a width or height of 0 included).
InitDraw ==
    /\ pc = "draw"
    /\ raw = TRUE
    /\ exit = "none"
    /\ term_info \in [alive : {TRUE}, width : 0..MaxW, height : 0..MaxH]
    /\ text \in Buffers
    /\ cursor \in [col : 0..1, row : 0..1,
                   ren_col : 0..(MaxRowLen + 1), ren_row : 0..MaxRows]
    /\ printed = <<>>

NextDraw == DrawText

SpecDraw == InitDraw /\ [][NextDraw]_vars

\* ------------------------------------------------- the clamp on long rows
\* A row of n characters for any n, the Alphabet repeated.
LongRow(n) == [i \in 1..n |-> Alphabet[((i - 1) % Len(Alphabet)) + 1]]

\* Row lengths around the values where `row_len as i16` changes sign or comes
\* back to 0: from 0, from i16::MAX and from u16::MAX on.
ClampRowLens == UNION {{b + d : d \in 0..MaxRowLen} : b \in {0, 32767, 65535}}

\* Widths terminal::size() can report as a u16: small ones, 80, and the values
\* around which `width as i16` changes sign.
ClampWidths == (1..MaxW) \cup {80, 32767, 32768, 65535}

\* `row_len as i16 - term_info.width as i16` leaves the range of i16: a build
\* with overflow checks panics there, a build without them wraps.
clamp_sub_overflows(self, ti, tx) ==
    LET d == as_i16(Len(tx[row_index(self) + 1])) - as_i16(ti.width)
    IN d < -32768 \/ d > 32767

\* move_cursor_end_of_row, called by an Up or a Down that found the cursor past
\* the row's end: the wrapped result, a panic where the subtraction overflows in
\* a build that checks, or a failed cursor::MoveTo after the assignments.
MoveCursorEndOfRow ==
    /\ pc = "read"
    /\ Len(text) > 0
    /\ row_in_range(cursor, text)
    /\ is_past_row_end(cursor, text)
    /\ \/ /\ cursor' = move_cursor_end_of_row(cursor, term_info, text)
          /\ pc' = "loop"
          /\ Continue
       \/ /\ cursor' = move_cursor_end_of_row(cursor, term_info, text)
          /\ Leave("err")
       \/ /\ clamp_sub_overflows(cursor, term_info, text)
          /\ UNCHANGED cursor
          /\ Leave("panic")
    /\ UNCHANGED <<term_info, text>>

\* The loop about to handle an Up on a one-row buffer, the cursor at the row's
\* end where Rights from the origin leave it, for every row length and width
\* of the two sets.
InitClamp ==
    /\ pc = "read"
    /\ raw = TRUE
    /\ exit = "none"
    /\ \E w \in ClampWidths, h \in 1..MaxH :
         term_info = [alive |-> TRUE, width |-> w, height |-> h]
    /\ \E n \in ClampRowLens :
         /\ text = <<LongRow(n)>>
         /\ cursor = [col |-> Min(term_info.width - 1, n), row |-> 0,
                      ren_col |-> n - Min(term_info.width - 1, n), ren_row |-> 0]
    /\ printed = <<>>

NextClamp == MoveCursorEndOfRow

SpecClamp == InitClamp /\ [][NextClamp]_vars

\* ================================================================ claims

\* The step hands an unmodified key event of the given code to
\* handle_key_event.
Handled(code) ==
    /\ pc = "read"
    /\ HandleKeyEvent([code |-> code, modifiers |-> "NONE"])

\* C1: with a non-empty buffer and a fixed viewport, after any sequence of
\* Up/Down/Left/Right commands the logical column ren_col + col is at most the
\* character count of the row at the logical row ren_row + row.
C1_LogicalColumnWithinRow ==
    (Len(text) > 0 /\ row_in_range(cursor, text))
        => col_index(cursor) <= Len(text[row_index(cursor) + 1])

\* C2: with a non-empty buffer, after any interleaving of move commands and
\* resizes the logical row ren_row + row is a valid row index, so indexing
\* text.rows[row_index()] never fails.
C2_LogicalRowValid ==
    /\ Len(text) > 0 =>
         /\ cursor.row >= 0
         /\ cursor.ren_row >= 0
         /\ row_index(cursor) < Len(text)
    /\ exit # "panic"

\* C2 witness: the cursor is on the last row of the buffer, scrolled down by a
\* Down command, in a viewport that a resize left no taller than the cursor's
\* row, and the next event is about to be handled.
C2_Witness ==
    /\ pc = "read"
    /\ Len(text) >= 2
    /\ row_index(cursor) = Len(text) - 1
    /\ cursor.ren_row > 0
    /\ cursor.row >= term_info.height

\* C3: with a fixed viewport and a non-empty buffer the window-relative cursor
\* stays inside the viewport: row < height and col < width in every state.
C3_CursorInsideViewport ==
    Len(text) > 0 =>
        /\ cursor.row < term_info.height
        /\ cursor.col < term_info.width

\* The character the claim C4 puts at line y, column x (both from 0).
C4_Cell(y, x) ==
    LET ri == y + cursor.ren_row
        ci == cursor.ren_col + x
    IN IF ri < Len(text) /\ ci < Len(text[ri + 1]) THEN text[ri + 1][ci + 1] ELSE " "

\* C4: a completed draw_text prints exactly height lines of exactly width
\* characters; the character at line y, column x is the character at index
\* ren_col + x of buffer row y + ren_row when there is one, a space otherwise.
C4_DrawTextGrid ==
    pc = "poll" =>
        /\ DOMAIN printed = 1..term_info.height
        /\ \A y \in 1..term_info.height :
             /\ DOMAIN printed[y] = 1..term_info.width
             /\ \A x \in 1..term_info.width : printed[y][x] = C4_Cell(y - 1, x - 1)

\* C4 witness: a draw scrolled right and down that printed a buffer character,
\* padded a line after a row's end and printed a blank line below the last row.
C4_Witness ==
    /\ pc = "poll"
    /\ cursor.ren_col > 0
    /\ cursor.ren_row > 0
    /\ term_info.height >= 2
    /\ term_info.width >= 2
    /\ printed[1][1] # " "
    /\ printed[1][term_info.width] = " "
    /\ cursor.ren_row + term_info.height > Len(text)

\* C5: no terminated state has the terminal still in raw mode.
C5_RawModeReleasedOnExit == pc = "exited" => ~raw

\* C6: with a fixed viewport, after an Up handled at a logical row greater than
\* 0, a Down arrives at the logical row the Up started from.
C6_UpThenDownSameRow ==
    [][(/\ Len(text) > 0
        /\ row_index(cursor) > 0
        /\ Handled("k"))
          => row_index(handle_cursor_move(cursor', "j", term_info', text').cursor)
               = row_index(cursor)]_vars

\* C6 witness: in a viewport of two or more lines the window is scrolled down
\* with the cursor on its top line, which only an Up does; the cursor is at a
\* logical row that is neither the first nor the last.
C6_Witness ==
    /\ pc = "read"
    /\ term_info.height >= 2
    /\ cursor.row = 0
    /\ cursor.ren_row > 0
    /\ row_index(cursor) < Len(text) - 1

\* C7: with a non-empty buffer, Left at logical column 0 and Up at logical row 0
\* leave col, row, ren_col and ren_row unchanged.
C7_LeftUpAtOriginNoOp ==
    [][(/\ Len(text) > 0
        /\ \/ Handled("h") /\ cursor.col = 0 /\ cursor.ren_col = 0
           \/ Handled("k") /\ cursor.row = 0 /\ cursor.ren_row = 0)
          => cursor' = cursor]_vars

\* C8: with a non-empty buffer, Down at the last logical row leaves col, row,
\* ren_col and ren_row unchanged.
C8_DownAtLastRowNoOp ==
    [][(/\ Len(text) > 0
        /\ row_index(cursor) = Len(text) - 1
        /\ Handled("j"))
          => cursor' = cursor]_vars

\* C9: with a buffer of zero rows every key command leaves the cursor at
\* (0, 0, 0, 0) and indexes no row (an index into the empty buffer would panic),
\* whatever the commands and resizes.
C9_EmptyBufferNoOp ==
    Len(text) = 0 => (cursor = new_cursor /\ exit # "panic")

\* C9 witness: the loop runs on an empty buffer, the viewport has room to move
\* in, and a key event is about to be handled.
C9_Witness ==
    /\ Len(text) = 0
    /\ pc = "read"
    /\ term_info.width >= 2
    /\ term_info.height >= 2

\* An unmodified 'q' has been handled: nothing else clears term_info.alive.
QuitHandled == ~term_info.alive

C11_ReadErrorAbortsStartup ==
    [][(/\ pc = "text"
        /\ \E reads \in FileReads :
             /\ \E i \in 1..Len(reads) : reads[i].err = "io"
             /\ LoadFile(reads))
          => (pc' = "exited" /\ exit' = "err")]_vars

\* C12: a key event with a modifier held, whatever its code, and an unmodified
\* key event whose code is none of q, h, j, k, l, change neither col, row,
\* ren_col, ren_row nor the alive flag.
C12_OtherKeysChangeNothing ==
    [][\A ev \in KeyEvents :
         (/\ ev.modifiers # "NONE" \/ ev.code \notin {"q", "h", "j", "k", "l"}
          /\ pc = "read"
          /\ HandleKeyEvent(ev))
            => (cursor' = cursor /\ term_info'.alive = term_info.alive)]_vars

\* C12 witness: a key event is about to be handled with the cursor away from
\* the window's top left corner on a non-empty buffer, where an Up, a Left and
\* a quit would each change the state.
C12_Witness ==
    /\ pc = "read"
    /\ Len(text) > 0
    /\ cursor.row > 0
    /\ cursor.col > 0
    /\ term_info.alive

\* C13: with a viewport of width >= 1 and height >= 1, from every cursor state
\* that moves and resizes reach, no move command and no redraw fails on an
\* index, a slice or a subtraction (the program never panics), and a move that
\* has nowhere to go (Up at logical row 0, Down at the last logical row, Left at
\* logical column 0, Right at the row's end) leaves the state as it was.
C13_MovesSafeAndOutOfRangeNoOp ==
    /\ [](exit # "panic")
    /\ [][(/\ Len(text) > 0
           /\ row_in_range(cursor, text)
           /\ \/ Handled("k") /\ row_index(cursor) = 0
              \/ Handled("j") /\ row_index(cursor) = Len(text) - 1
              \/ Handled("h") /\ col_index(cursor) = 0
              \/ Handled("l")
                    /\ col_index(cursor) >= Len(text[row_index(cursor) + 1]))
             => (cursor' = cursor /\ term_info' = term_info /\ text' = text)]_vars

\* The step handles an unmodified Up ("k") or Down ("j") whose vertical move
\* ends past the end of the row it arrives at, so that it runs
\* move_cursor_end_of_row.
Clamped(code) ==
    /\ Len(text) > 0
    /\ Handled(code)
    /\ LET moved == IF code = "k" THEN move_up(cursor)
                    ELSE move_down(cursor, term_info, text)
       IN row_in_range(moved, text) /\ is_past_row_end(moved, text)

\* C14: the clamp on a row of length len in a viewport of width w sets
\* ren_col = max(0, len - w) and col = len - ren_col, so ren_col + col = len,
\* whatever len and w are.
C14_ClampSplitsRowLength ==
    [][(Clamped("k") \/ Clamped("j"))
          => LET len == Len(text[row_index(cursor') + 1])
             IN /\ cursor'.ren_col = Max(0, len - term_info.width)
                /\ cursor'.col = len - cursor'.ren_col
                /\ col_index(cursor') = len]_vars

\* C15: after an Up or a Down that changes the logical row, the logical column
\* is the smaller of the old logical column and the new row's length: col and
\* ren_col are both kept when the old logical column does not exceed the new
\* row's length, and the logical column is the new row's length otherwise.
C15_VerticalMoveKeepsOrClampsColumn ==
    [][(/\ Len(text) > 0
        /\ row_in_range(cursor, text)
        /\ Handled("k") \/ Handled("j")
        /\ row_index(cursor') # row_index(cursor))
          => LET len == Len(text[row_index(cursor') + 1])
             IN /\ col_index(cursor') = Min(col_index(cursor), len)
                /\ IF col_index(cursor) <= len
                   THEN /\ cursor'.col = cursor.col
                        /\ cursor'.ren_col = cursor.ren_col
                   ELSE col_index(cursor') = len]_vars

\* C16: Right on a row of length len in a viewport of width w >= 1 changes
\* nothing when ren_col + col = len; otherwise it increments col when
\* col < w - 1 and increments ren_col, col unchanged, when col = w - 1. The
\* logical column grows by exactly one per effective Right and never passes len.
C16_RightStepsWithinRow ==
    [][(/\ Len(text) > 0
        /\ row_in_range(cursor, text)
        /\ Handled("l"))
          => LET len == Len(text[row_index(cursor) + 1])
                 w == term_info.width
             IN /\ IF col_index(cursor) = len THEN cursor' = cursor
                   ELSE /\ col_index(cursor') = col_index(cursor) + 1
                        /\ cursor.col < w - 1
                             => cursor' = [cursor EXCEPT !.col = @ + 1]
                        /\ cursor.col = w - 1
                             => cursor' = [cursor EXCEPT !.ren_col = @ + 1]
                /\ col_index(cursor') <= len]_vars

\* C17: after a resize to a height at most the stored row or to a width at
\* most the stored col, the loop brings the cursor back into the viewport before
\* it redraws: whenever draw_text is about to run, row < height and col < width
\* for the size update_size has just stored.
C17_CursorInsideViewportAtRedraw ==
    pc = "draw" =>
        /\ cursor.row < term_info.height
        /\ cursor.col < term_info.width

\* C18: from any state, Left and Right leave row and ren_row as they are, and
\* Left does not clamp: at logical column 0 it changes nothing, elsewhere it
\* lowers exactly one of col and ren_col by exactly one.
C18_HorizontalMovesKeepRow ==
    [][/\ (Handled("h") \/ Handled("l"))
            => (cursor'.row = cursor.row /\ cursor'.ren_row = cursor.ren_row)
       /\ Handled("h")
            => IF col_index(cursor) = 0 \/ Len(text) = 0 THEN cursor' = cursor
               ELSE \/ cursor' = [cursor EXCEPT !.col = @ - 1]
                    \/ cursor' = [cursor EXCEPT !.ren_col = @ - 1]]_vars

\* C18 witness: the window is scrolled right and the cursor stands left of the
\* window's last column, one logical column before the row's end: a Left has
\* stepped back from the column a scrolling Right reached. A key event is
\* about to be handled on a row below the first.
C18_Witness ==
    /\ pc = "read"
    /\ Len(text) > 0
    /\ row_in_range(cursor, text)
    /\ cursor.ren_col > 0
    /\ cursor.col < term_info.width - 1
    /\ col_index(cursor) = Len(text[row_index(cursor) + 1]) - 1
    /\ row_index(cursor) > 0

\* C19: with a viewport of fixed height h >= 1 and a buffer of n >= 1 rows,
\* after any sequence of moves ren_row <= max(0, n - h): the window never
\* scrolls past the buffer's last row.
C19_ScrollRowBounded ==
    Len(text) > 0 => cursor.ren_row <= Max(0, Len(text) - term_info.height)

\* C19 witness: in a viewport of two or more lines the window is scrolled down
\* as far as the bound allows, the cursor on the window's bottom line and the
\* buffer's last row.
C19_Witness ==
    /\ pc = "read"
    /\ term_info.height >= 2
    /\ cursor.ren_row > 0
    /\ cursor.ren_row = Len(text) - term_info.height
    /\ cursor.row = term_info.height - 1

\* C20: the scroll offset the clamp computes, max(0, row_len as i16 - width as
\* i16), is max(0, row_len - width) for every row length and width, row lengths
\* of 2^15 and more included.
C20_ClampOffsetExact ==
    (pc = "loop" /\ Len(text) > 0)
        => cursor.ren_col = Max(0, Len(text[row_index(cursor) + 1]) - term_info.width)

====
